---- MODULE Spec2Model ----
(***************************************************************************)
(* Dual-viewport image inspector of src/5_sync.py: two ZoomableStaticBitmap *)
(* canvases (left: source, right: result) that mirror zoom and pan to each  *)
(* other, and the BackgroundRemoverApp frame that owns them.                *)
(*                                                                          *)
(* Spec explores pointer and wheel input with collaborators that work,      *)
(* SpecZoomed the same input from deep zoom levels, and SpecIngest the      *)
(* clipboard, drag-and-drop and background removal with their failures.     *)
(*                                                                          *)
(* zoom_level is a Python float.  It is modelled in fixed point, in units   *)
(* of 1/ZoomOne, each product rounded to the nearest unit; int(x) is        *)
(* truncation toward zero and // is floor division, as in Python.           *)
(***************************************************************************)
EXTENDS Integers, Sequences, FiniteSets, TLC

\* ---------------------------------------------------------------- bounds
\* zoom-changing Ctrl+wheel events explored from the state after construction
MaxWheel == 1
\* panning pointer-move events explored from an initial state
MaxMoves == 1
\* SpecZoomed: wheel events already handled on the left canvas at the start,
\* and zoom-changing Ctrl+wheel events explored from there
MaxPreWheel == 22
MaxZoomedWheel == 1
\* SpecIngest: zoom-changing Ctrl+wheel events explored between the clipboard,
\* drop and background-removal operations
MaxIngestWheel == 1

\* ------------------------------------------------------ program constants
ZoomOne == 10000
MinZoom == 1000
MaxZoom == 50000
ContainerW == 400
ContainerH == 400
ThumbMax == 1280

Canvases == {"left", "right"}

\* self.mirror_canvas after BackgroundRemoverApp.__init__
Mirror(c) == IF c = "left" THEN "right" ELSE "left"

\* pointer positions delivered with mouse events
Points == {<<200, 200>>, <<120, 260>>}
\* event.GetWheelRotation() / 120
Deltas == {-1, 0, 1}

\* PIL images: size and mode
NoImage == [w |-> 0, h |-> 0, mode |-> "none"]
Images == {[w |-> 300, h |-> 200, mode |-> "RGB"],
           [w |-> 1600, h |-> 1200, mode |-> "RGB"]}

\* the image and the pointer position of the zoom scenario
ScenarioImage == [w |-> 800, h |-> 600, mode |-> "RGB"]
ScenarioPoint == <<200, 200>>

NoBitmap == [w |-> 0, h |-> 0, x |-> 0, y |-> 0, img |-> NoImage]

Max(a, b) == IF a >= b THEN a ELSE b
Min(a, b) == IF a <= b THEN a ELSE b
Abs(a) == IF a >= 0 THEN a ELSE -a

\* Python int() of the quotient n/d, d > 0: truncation toward zero
Trunc(n, d) == IF n >= 0 THEN n \div d ELSE -((-n) \div d)

\* zoom_level * zoom_factor, zoom_factor in tenths (11 or 9)
ZoomTimes(z, tenths) == (z * tenths + 5) \div 10

\* int(dimension * zoom_level)
Scaled(dim, z) == (dim * z) \div ZoomOne

\* ZoomableStaticBitmap.__init__
NewCanvas == [source_pil_image |-> NoImage,
              source_shared |-> FALSE,
              zoom_level |-> ZoomOne,
              pan_x |-> 0,
              pan_y |-> 0,
              dragging |-> FALSE,
              last_mouse_x |-> 0,
              last_mouse_y |-> 0,
              current_bitmap |-> NoBitmap]

HasImage(s) == s.source_pil_image # NoImage

\* one entry of the log of what a handler did: a render (UpdateZoom) of
\* canvas c with the state it read, or a mirror write (SyncMirror) by canvas
\* c with the state it copied to its mirror canvas
Call(op, c, s) == [op |-> op, c |-> c, img |-> s.source_pil_image,
                   zoom |-> s.zoom_level, pan_x |-> s.pan_x, pan_y |-> s.pan_y]

\* ClampPanPosition that leaves the pan as it is
ClampPanPositionOff(s) == s

\* ZoomableStaticBitmap.ClampPanPosition
ClampPanPosition(s) ==
    IF HasImage(s) /\ s.zoom_level > ZoomOne
    THEN LET image_width == Scaled(s.source_pil_image.w, s.zoom_level)
             image_height == Scaled(s.source_pil_image.h, s.zoom_level)
             max_pan_x == Max(0, (image_width - ContainerW) \div 2)
             max_pan_y == Max(0, (image_height - ContainerH) \div 2)
         IN [s EXCEPT !.pan_x = Max(Min(s.pan_x, max_pan_x), -max_pan_x),
                      !.pan_y = Max(Min(s.pan_y, max_pan_y), -max_pan_y)]
    ELSE s

\* ZoomableStaticBitmap.UpdateZoom: st = [cv, tr]
UpdateZoom(st, c) ==
    LET s == st.cv[c]
        new_width == Scaled(s.source_pil_image.w, s.zoom_level)
        new_height == Scaled(s.source_pil_image.h, s.zoom_level)
        x_offset == (ContainerW - new_width) \div 2
                    + (IF s.zoom_level > ZoomOne THEN s.pan_x ELSE 0)
        y_offset == (ContainerH - new_height) \div 2
                    + (IF s.zoom_level > ZoomOne THEN s.pan_y ELSE 0)
        frame == [w |-> new_width, h |-> new_height, x |-> x_offset,
                  y |-> y_offset, img |-> s.source_pil_image]
    IN IF HasImage(s)
       THEN [cv |-> IF new_width > 0 /\ new_height > 0
                    THEN [st.cv EXCEPT ![c].current_bitmap = frame]
                    ELSE st.cv,
             tr |-> Append(st.tr, Call("UpdateZoom", c, s))]
       ELSE st

\* SyncMirror copying zoom_level and pan_x but not pan_y
SyncMirrorNoPanY(st, c) ==
    LET m == Mirror(c)
        s == st.cv[c]
    IN IF HasImage(st.cv[m])
       THEN LET cv1 == [st.cv EXCEPT ![m].zoom_level = s.zoom_level,
                                     ![m].pan_x = s.pan_x]
            IN UpdateZoom([cv |-> cv1,
                           tr |-> Append(st.tr, Call("SyncMirror", c, s))], m)
       ELSE st

\* SyncMirror whose mirror canvas, once updated, synchronizes back
SyncMirrorEcho(st, c) ==
    LET m == Mirror(c)
        s == st.cv[c]
    IN IF HasImage(st.cv[m])
       THEN LET cv1 == [st.cv EXCEPT ![m].zoom_level = s.zoom_level,
                                     ![m].pan_x = s.pan_x,
                                     ![m].pan_y = s.pan_y]
                st1 == UpdateZoom([cv |-> cv1,
                                   tr |-> Append(st.tr, Call("SyncMirror", c, s))], m)
            IN IF HasImage(st1.cv[c])
               THEN UpdateZoom([cv |-> st1.cv,
                                tr |-> Append(st1.tr, Call("SyncMirror", m, st1.cv[m]))], c)
               ELSE st1
       ELSE st

\* ZoomableStaticBitmap.SyncMirror
SyncMirror(st, c) ==
    LET m == Mirror(c)
        s == st.cv[c]
    IN IF HasImage(st.cv[m])
       THEN LET cv1 == [st.cv EXCEPT ![m].zoom_level = s.zoom_level,
                                     ![m].pan_x = s.pan_x,
                                     ![m].pan_y = s.pan_y]
            IN UpdateZoom([cv |-> cv1,
                           tr |-> Append(st.tr, Call("SyncMirror", c, s))], m)
       ELSE st

\* ZoomableStaticBitmap.OnMouseDown
OnMouseDown(st, c, x, y) ==
    IF st.cv[c].zoom_level > ZoomOne
    THEN [st EXCEPT !.cv[c].dragging = TRUE,
                    !.cv[c].last_mouse_x = x,
                    !.cv[c].last_mouse_y = y]
    ELSE st

\* ZoomableStaticBitmap.OnMouseUp
OnMouseUp(st, c) == [st EXCEPT !.cv[c].dragging = FALSE]

\* ZoomableStaticBitmap.OnMouseMove
OnMouseMove(st, c, leftIsDown, x, y) ==
    LET s == st.cv[c]
    IN IF s.dragging /\ leftIsDown
       THEN LET dx == x - s.last_mouse_x
                dy == y - s.last_mouse_y
                moved == [s EXCEPT !.pan_x = s.pan_x + dx,
                                   !.pan_y = s.pan_y + dy,
                                   !.last_mouse_x = x,
                                   !.last_mouse_y = y]
                st1 == [st EXCEPT !.cv[c] = ClampPanPosition(moved)]
            IN SyncMirror(UpdateZoom(st1, c), c)
       ELSE st

\* OnMouseWheel's new_zoom with the clamp left out
NewZoomUnclamped(z, delta) ==
    ZoomTimes(z, IF delta > 0 THEN 11 ELSE 9)

\* new_zoom of OnMouseWheel where a rotation of zero zooms in
NewZoomZeroUp(z, delta) ==
    LET zoom_factor == IF delta >= 0 THEN 11 ELSE 9
    IN Max(MinZoom, Min(MaxZoom, ZoomTimes(z, zoom_factor)))

\* new_zoom of OnMouseWheel: the product, clamped to [min_zoom, max_zoom]
NewZoom(z, delta) ==
    LET zoom_factor == IF delta > 0 THEN 11 ELSE 9
    IN Max(MinZoom, Min(MaxZoom, ZoomTimes(z, zoom_factor)))

\* the anchor formula rounded down instead of toward zero
AnchorPanFloor(mouse, pan, new_zoom, old_zoom) ==
    (mouse * old_zoom - (mouse - pan) * new_zoom) \div old_zoom

\* int(mouse - (mouse - pan) * (new_zoom / old_zoom))
AnchorPan(mouse, pan, new_zoom, old_zoom) ==
    Trunc(mouse * old_zoom - (mouse - pan) * new_zoom, old_zoom)

\* OnMouseWheel without the test that the clamped zoom differs from the current
OnMouseWheelAlways(st, c, ctrl, delta, x, y) ==
    LET s == st.cv[c]
        old_zoom == s.zoom_level
        new_zoom == NewZoom(s.zoom_level, delta)
    IN IF ctrl
       THEN LET zoomed == [s EXCEPT
                             !.pan_x = AnchorPan(x, s.pan_x, new_zoom, old_zoom),
                             !.pan_y = AnchorPan(y, s.pan_y, new_zoom, old_zoom),
                             !.zoom_level = new_zoom]
                st1 == [st EXCEPT !.cv[c] = ClampPanPosition(zoomed)]
            IN SyncMirror(UpdateZoom(st1, c), c)
       ELSE st

\* OnMouseWheel that zooms whether or not Ctrl is held
OnMouseWheelAnyModifier(st, c, ctrl, delta, x, y) ==
    LET s == st.cv[c]
        old_zoom == s.zoom_level
        new_zoom == NewZoom(s.zoom_level, delta)
    IN IF new_zoom # s.zoom_level
       THEN LET zoomed == [s EXCEPT
                             !.pan_x = AnchorPan(x, s.pan_x, new_zoom, old_zoom),
                             !.pan_y = AnchorPan(y, s.pan_y, new_zoom, old_zoom),
                             !.zoom_level = new_zoom]
                st1 == [st EXCEPT !.cv[c] = ClampPanPosition(zoomed)]
            IN SyncMirror(UpdateZoom(st1, c), c)
       ELSE st

\* ZoomableStaticBitmap.OnMouseWheel
OnMouseWheel(st, c, ctrl, delta, x, y) ==
    LET s == st.cv[c]
        old_zoom == s.zoom_level
        new_zoom == NewZoom(s.zoom_level, delta)
    IN IF ctrl /\ new_zoom # s.zoom_level
       THEN LET zoomed == [s EXCEPT
                             !.pan_x = AnchorPan(x, s.pan_x, new_zoom, old_zoom),
                             !.pan_y = AnchorPan(y, s.pan_y, new_zoom, old_zoom),
                             !.zoom_level = new_zoom]
                st1 == [st EXCEPT !.cv[c] = ClampPanPosition(zoomed)]
            IN SyncMirror(UpdateZoom(st1, c), c)
       ELSE st

\* SetBitmap that leaves the pan as it was
SetBitmapKeepPan(st, c, pil_image) ==
    LET st1 == [st EXCEPT !.cv[c].source_pil_image = pil_image,
                          !.cv[c].zoom_level = ZoomOne]
    IN UpdateZoom(st1, c)

\* SetBitmap that renders the new image once before it resets zoom and pan
SetBitmapRenderFirst(st, c, pil_image) ==
    LET st1 == UpdateZoom([st EXCEPT !.cv[c].source_pil_image = pil_image], c)
        st2 == [st1 EXCEPT !.cv[c].zoom_level = ZoomOne,
                           !.cv[c].pan_x = 0,
                           !.cv[c].pan_y = 0]
    IN UpdateZoom(st2, c)

\* SetBitmap that, the image installed, applies the zoom and pan the mirror
\* canvas has been given in the meantime
SetBitmapAdoptMirror(st, c, pil_image) ==
    LET m == st.cv[Mirror(c)]
        st1 == [st EXCEPT !.cv[c].source_pil_image = pil_image,
                          !.cv[c].zoom_level = m.zoom_level,
                          !.cv[c].pan_x = m.pan_x,
                          !.cv[c].pan_y = m.pan_y]
    IN UpdateZoom(st1, c)

\* SetBitmap that stores the image object it is given instead of a copy
SetBitmapNoCopy(st, c, pil_image) ==
    LET st1 == [st EXCEPT !.cv[c].source_pil_image = pil_image,
                          !.cv[c].source_shared = TRUE,
                          !.cv[c].zoom_level = ZoomOne,
                          !.cv[c].pan_x = 0,
                          !.cv[c].pan_y = 0]
    IN UpdateZoom(st1, c)

\* ZoomableStaticBitmap.SetBitmap, called with a pil_image: source_shared
\* tells whether source_pil_image is the caller's image object (TRUE) or an
\* object of the canvas's own (FALSE)
SetBitmap(st, c, pil_image) ==
    LET st1 == [st EXCEPT !.cv[c].source_pil_image = pil_image,
                          !.cv[c].source_shared = FALSE,
                          !.cv[c].zoom_level = ZoomOne,
                          !.cv[c].pan_x = 0,
                          !.cv[c].pan_y = 0]
    IN UpdateZoom(st1, c)

\* BackgroundRemoverApp.display_image
display_image(st, c, pil_image) ==
    SetBitmap([st EXCEPT !.cv[c].zoom_level = ZoomOne], c, pil_image)

\* PIL Image.thumbnail((ThumbMax, ThumbMax)) as resize_image_with_aspect_ratio
\* applies it: in place, aspect ratio kept, never enlarging
Thumbnail(img) ==
    IF img.w <= ThumbMax /\ img.h <= ThumbMax THEN img
    ELSE IF img.w >= img.h
         THEN [img EXCEPT !.w = ThumbMax,
                          !.h = Max(1, (2 * img.h * ThumbMax + img.w) \div (2 * img.w))]
         ELSE [img EXCEPT !.h = ThumbMax,
                          !.w = Max(1, (2 * img.w * ThumbMax + img.h) \div (2 * img.h))]

\* the canvases after image.thumbnail has changed the image object `image`
\* in place: a canvas whose source image is that object changes with it
ThumbnailInPlace(cv, image) ==
    [c \in Canvases |->
        IF cv[c].source_shared /\ cv[c].source_pil_image = image
        THEN [cv[c] EXCEPT !.source_pil_image = Thumbnail(image)]
        ELSE cv[c]]

\* rembg.remove: an image of the same size carrying alpha
Rembg(img) == [img EXCEPT !.mode = "RGBA"]

\* a file whose header Image.open accepts but whose pixel data cannot be
\* loaded; every operation that needs the pixels (copy, thumbnail, rembg)
\* raises on it
TruncatedImage == [w |-> 640, h |-> 480, mode |-> "truncated"]
Loadable(img) == img.mode \in {"RGB", "RGBA"}

\* image.convert('RGB') where the mode is not RGB
ToRGB(img) == IF img.mode = "RGB" THEN img ELSE [img EXCEPT !.mode = "RGB"]

\* one call to an external collaborator, as logged in io
Ext(call, arg) == [call |-> call, arg |-> arg]

\* the message boxes of the application
MsgLoadFirst == Ext("wx.MessageBox", "Please load an image first.")
MsgProcessing == Ext("wx.MessageBox", "Error processing image")
MsgLoading == Ext("wx.MessageBox", "Error loading image")

\* bitmaps that other applications put on the clipboard or drag onto the
\* left canvas, as Image.frombytes("RGB", ...) reads them
Bitmaps == {[w |-> 300, h |-> 200, mode |-> "RGB"]}

\* files dragged onto the left canvas, by what Image.open makes of them:
\* NoImage is a file that Image.open rejects
DropFiles == {NoImage, TruncatedImage, [w |-> 1600, h |-> 1200, mode |-> "RGB"]}

\* self.output_filename before the first assignment to it, and the name
\* f"no_background_{timestamp}.png" it is given
NoFilename == ""
OutputName == "no_background_<timestamp>.png"

\* a path is the sequence of its components; the working directory of the
\* process
Cwd == "<cwd>"
MsgNotFound == Ext("wx.MessageBox", "Output file not found.")
MsgNoProcessed == Ext("wx.MessageBox", "No processed image available.")

\* os.path.join(dir, name)
Join(dir, name) == <<dir, name>>

\* the absolute path of a path relative to the working directory
Resolve(path) == <<Cwd>> \o path

\* os.path.abspath(name)
AbsPath(name) == Resolve(<<name>>)

\* save_final_image(image, output_path): the files afterwards; ok tells
\* whether makedirs and image.save returned without raising
save_final_image(fs, output_path, ok) ==
    LET out_loc == Join("output", output_path)
    IN IF ok THEN fs \cup {Resolve(out_loc)} ELSE fs

\* BackgroundRemoverApp.on_explorer: the calls it makes
on_explorer(filename, fs) ==
    IF filename # NoFilename
    THEN LET file_path == AbsPath(filename)
         IN IF file_path \in fs
            THEN <<Ext("subprocess.run", "explorer /select, file_path")>>
            ELSE <<MsgNotFound>>
    ELSE <<MsgNoProcessed>>

\* OnCopy that exports what the canvas shows: the image scaled by the zoom
OnCopyRendered(s, cb, opened) ==
    IF HasImage(s)
    THEN IF opened
         THEN [clipboard |-> [data |-> [w |-> s.current_bitmap.w,
                                        h |-> s.current_bitmap.h,
                                        mode |-> "RGB"],
                              open |-> FALSE],
               io |-> <<Ext("TheClipboard.Open", ""), Ext("TheClipboard.SetData", ""),
                        Ext("TheClipboard.Close", "")>>]
         ELSE [clipboard |-> cb, io |-> <<Ext("TheClipboard.Open", "")>>]
    ELSE [clipboard |-> cb, io |-> <<>>]

\* OnCopy that goes to the clipboard without testing for a source image
OnCopyUnguarded(s, cb, opened) ==
    IF opened
    THEN [clipboard |-> [data |-> ToRGB(s.source_pil_image), open |-> FALSE],
          io |-> <<Ext("TheClipboard.Open", ""), Ext("TheClipboard.SetData", ""),
                   Ext("TheClipboard.Close", "")>>]
    ELSE [clipboard |-> cb, io |-> <<Ext("TheClipboard.Open", "")>>]

\* ZoomableStaticBitmap.OnCopy on a canvas in state s with the clipboard in
\* state cb; opened is the result of wx.TheClipboard.Open()
OnCopy(s, cb, opened) ==
    IF HasImage(s)
    THEN IF opened
         THEN [clipboard |-> [data |-> ToRGB(s.source_pil_image), open |-> FALSE],
               io |-> <<Ext("TheClipboard.Open", ""), Ext("TheClipboard.SetData", ""),
                        Ext("TheClipboard.Close", "")>>]
         ELSE [clipboard |-> cb, io |-> <<Ext("TheClipboard.Open", "")>>]
    ELSE [clipboard |-> cb, io |-> <<>>]

VARIABLES
    canvas,           \* the two ZoomableStaticBitmap objects
    original_image,   \* BackgroundRemoverApp.original_image
    processed_image,  \* BackgroundRemoverApp.processed_image
    remove_enabled,   \* remove_button.IsEnabled()
    remove_label,     \* remove_button.GetLabel()
    explorer_enabled, \* explorer_button.IsEnabled()
    pc,               \* where the UI thread is: "idle" in the event loop,
                      \* "removing" inside on_remove_background's model call
    wheels,           \* zoom-changing wheel events still to be explored
    moves,            \* panning pointer-move events still to be explored
    trace,            \* the renders and mirror writes made by the last handler
                      \* that made any
    clipboard,        \* wx.TheClipboard: the bitmap it holds (NoImage when it
                      \* holds no bitmap data) and whether this process has it open
    io,               \* the calls the last handler made to the clipboard, to
                      \* rembg, to save_final_image, to wx.MessageBox and to
                      \* the file manager
    output_filename,  \* self.output_filename, NoFilename while the attribute
                      \* does not exist
    files             \* the absolute paths of the files this process has saved

vars == <<canvas, original_image, processed_image, remove_enabled, remove_label,
          explorer_enabled, pc, wheels, moves, trace, clipboard, io,
          output_filename, files>>

diskVars == <<output_filename, files>>

appVars == <<original_image, processed_image, remove_enabled, remove_label,
             explorer_enabled, pc>>

Start == [cv |-> canvas, tr |-> <<>>]

\* the log after a handler: its own renders and mirror writes, or the
\* previous log when it made none
Logged(st) == IF st.tr = <<>> THEN trace ELSE st.tr

\* BackgroundRemoverApp.__init__
Init ==
    /\ canvas = [c \in Canvases |-> NewCanvas]
    /\ original_image = NoImage
    /\ processed_image = NoImage
    /\ remove_enabled = FALSE
    /\ remove_label = "Remove Background"
    /\ explorer_enabled = FALSE
    /\ pc = "idle"
    /\ output_filename = NoFilename
    /\ files = {}
    /\ wheels = MaxWheel
    /\ moves = MaxMoves
    /\ trace = <<>>
    /\ clipboard = [data |-> NoImage, open |-> FALSE]
    /\ io = <<>>

\* EVT_MOUSEWHEEL on canvas c at point p
MouseWheelAt(c, ctrl, delta, p) ==
    LET st == OnMouseWheel(Start, c, ctrl, delta, p[1], p[2])
        changed == st.cv[c].zoom_level # canvas[c].zoom_level
    IN /\ pc = "idle"
       /\ UNCHANGED diskVars
       /\ changed => wheels > 0
       /\ canvas' = st.cv
       /\ trace' = Logged(st)
       /\ wheels' = IF changed THEN wheels - 1 ELSE wheels
       /\ io' = <<>>
       /\ UNCHANGED <<appVars, moves, clipboard>>

MouseWheel(c) ==
    \E ctrl \in BOOLEAN, delta \in Deltas, p \in Points :
        MouseWheelAt(c, ctrl, delta, p)

\* EVT_LEFT_DOWN on canvas c
MouseDown(c) ==
    \E p \in Points :
        LET st == OnMouseDown(Start, c, p[1], p[2])
        IN /\ pc = "idle"
           /\ UNCHANGED diskVars
           /\ canvas' = st.cv
           /\ trace' = Logged(st)
           /\ io' = <<>>
           /\ UNCHANGED <<appVars, wheels, moves, clipboard>>

\* EVT_LEFT_UP on canvas c
MouseUp(c) ==
    LET st == OnMouseUp(Start, c)
    IN /\ pc = "idle"
       /\ UNCHANGED diskVars
       /\ canvas' = st.cv
       /\ trace' = Logged(st)
       /\ io' = <<>>
       /\ UNCHANGED <<appVars, wheels, moves, clipboard>>

\* EVT_MOTION on canvas c at point p
MouseMoveAt(c, leftIsDown, p) ==
    LET st == OnMouseMove(Start, c, leftIsDown, p[1], p[2])
        panning == canvas[c].dragging /\ leftIsDown
    IN /\ pc = "idle"
       /\ UNCHANGED diskVars
       /\ panning => moves > 0
       /\ canvas' = st.cv
       /\ trace' = Logged(st)
       /\ moves' = IF panning THEN moves - 1 ELSE moves
       /\ io' = <<>>
       /\ UNCHANGED <<appVars, wheels, clipboard>>

MouseMove(c) ==
    \E leftIsDown \in BOOLEAN, p \in Points : MouseMoveAt(c, leftIsDown, p)

\* BackgroundRemoverApp.on_load_image with the file of image img chosen
LoadImageOf(img) ==
    LET st == display_image(Start, "left", img)
    IN /\ pc = "idle"
       /\ UNCHANGED diskVars
       /\ original_image' = img
       /\ canvas' = st.cv
       /\ trace' = Logged(st)
       /\ remove_enabled' = TRUE
       /\ io' = <<>>
       /\ UNCHANGED <<processed_image, remove_label, explorer_enabled, pc, wheels,
                      moves, clipboard>>

LoadImage == \E img \in Images : LoadImageOf(img)

\* BackgroundRemoverApp.on_load_image, dialog cancelled
LoadCancel ==
    /\ pc = "idle"
    /\ UNCHANGED diskVars
    /\ io' = <<>>
    /\ UNCHANGED <<canvas, appVars, wheels, moves, trace, clipboard>>

\* on_remove_background that leaves the Explorer button as it is when it
\* starts
RemoveSubmitOfKeepExplorer(sessionOk) ==
    /\ pc = "idle"
    /\ UNCHANGED diskVars
    /\ remove_enabled
    /\ original_image # NoImage
    /\ UNCHANGED explorer_enabled
    /\ IF sessionOk /\ Loadable(original_image)
       THEN /\ remove_enabled' = FALSE
            /\ remove_label' = "Processing..."
            /\ original_image' = Thumbnail(original_image)
            /\ canvas' = ThumbnailInPlace(canvas, original_image)
            /\ pc' = "removing"
            /\ io' = <<Ext("rembg.new_session", "")>>
       ELSE /\ remove_enabled' = TRUE
            /\ remove_label' = "Remove Background"
            /\ io' = <<Ext("rembg.new_session", ""), MsgProcessing>>
            /\ UNCHANGED <<canvas, original_image, pc>>
    /\ UNCHANGED <<processed_image, wheels, moves, trace, clipboard>>

\* BackgroundRemoverApp.on_remove_background up to the call of the model:
\* the button is disabled, the session is created (sessionOk: without an
\* exception), original_image is resized in place, and the UI thread enters
\* rembg.remove.  An exception before that is caught, reported in a message
\* box, and the finally block restores the button.
RemoveSubmitOf(sessionOk) ==
    /\ pc = "idle"
    /\ UNCHANGED diskVars
    /\ remove_enabled
    /\ original_image # NoImage
    /\ explorer_enabled' = FALSE
    /\ IF sessionOk /\ Loadable(original_image)
       THEN /\ remove_enabled' = FALSE
            /\ remove_label' = "Processing..."
            /\ original_image' = Thumbnail(original_image)
            /\ canvas' = ThumbnailInPlace(canvas, original_image)
            /\ pc' = "removing"
            /\ io' = <<Ext("rembg.new_session", "")>>
       ELSE /\ remove_enabled' = TRUE
            /\ remove_label' = "Remove Background"
            /\ io' = <<Ext("rembg.new_session", ""), MsgProcessing>>
            /\ UNCHANGED <<canvas, original_image, pc>>
    /\ UNCHANGED <<processed_image, wheels, moves, trace, clipboard>>

\* the Remove Background button pressed, rembg.new_session working
RemoveSubmit == RemoveSubmitOf(TRUE)

\* the Remove Background button pressed, rembg.new_session raising
RemoveSubmitFails == RemoveSubmitOf(FALSE)

\* on_remove_background that, when the model raises, shows the image it
\* submitted in the right canvas
RemoveDeliverOfFallback(modelOk, saveOk) ==
    /\ pc = "removing"
    /\ LET result == IF modelOk THEN Rembg(original_image) ELSE original_image
           st == display_image(Start, "right", result)
       IN /\ canvas' = st.cv
          /\ trace' = Logged(st)
          /\ processed_image' = IF modelOk THEN result ELSE processed_image
          /\ explorer_enabled' = IF modelOk THEN saveOk ELSE explorer_enabled
          /\ output_filename' = IF modelOk THEN OutputName ELSE output_filename
          /\ files' = IF modelOk THEN save_final_image(files, OutputName, saveOk)
                                 ELSE files
          /\ io' = IF modelOk
                   THEN <<Ext("rembg.remove", ""), Ext("save_final_image", "")>>
                        \o (IF saveOk THEN <<>> ELSE <<MsgProcessing>>)
                   ELSE <<Ext("rembg.remove", ""), MsgProcessing>>
    /\ remove_enabled' = TRUE
    /\ remove_label' = "Remove Background"
    /\ pc' = "idle"
    /\ UNCHANGED <<original_image, wheels, moves, clipboard>>

\* BackgroundRemoverApp.on_remove_background from the return of the model
\* to the end of the handler
RemoveDeliverOf(modelOk, saveOk) ==
    /\ pc = "removing"
    /\ IF modelOk
       THEN LET result == Rembg(original_image)
                st == display_image(Start, "right", result)
            IN /\ processed_image' = result
               /\ canvas' = st.cv
               /\ trace' = Logged(st)
               /\ explorer_enabled' = saveOk
               /\ output_filename' = OutputName
               /\ files' = save_final_image(files, OutputName, saveOk)
               /\ io' = <<Ext("rembg.remove", ""), Ext("save_final_image", "")>>
                        \o (IF saveOk THEN <<>> ELSE <<MsgProcessing>>)
       ELSE /\ io' = <<Ext("rembg.remove", ""), MsgProcessing>>
            /\ UNCHANGED <<canvas, trace, processed_image, explorer_enabled,
                           diskVars>>
    /\ remove_enabled' = TRUE
    /\ remove_label' = "Remove Background"
    /\ pc' = "idle"
    /\ UNCHANGED <<original_image, wheels, moves, clipboard>>

\* rembg.remove and save_final_image both returning
RemoveDeliver == RemoveDeliverOf(TRUE, TRUE)

\* rembg.remove raising, or save_final_image raising after the result is shown
RemoveDeliverFails == RemoveDeliverOf(FALSE, FALSE) \/ RemoveDeliverOf(TRUE, FALSE)

\* BackgroundRemoverApp.on_remove_background called while no image is held:
\* the handler returns after its message box, before the try block
RemoveRejected ==
    /\ pc = "idle"
    /\ UNCHANGED diskVars
    /\ original_image = NoImage
    /\ io' = <<MsgLoadFirst>>
    /\ UNCHANGED <<canvas, appVars, wheels, moves, trace, clipboard>>

\* the Open in Explorer button pressed
Explorer ==
    /\ pc = "idle"
    /\ explorer_enabled
    /\ io' = on_explorer(output_filename, files)
    /\ UNCHANGED <<canvas, appVars, wheels, moves, trace, clipboard, diskVars>>

\* the Copy menu handler of canvas c
Copy(c) ==
    \E opened \in BOOLEAN :
        LET r == OnCopy(canvas[c], clipboard, opened)
        IN /\ pc = "idle"
           /\ UNCHANGED diskVars
           /\ clipboard' = r.clipboard
           /\ io' = r.io
           /\ UNCHANGED <<canvas, appVars, wheels, moves, trace>>

\* what OnPaste and OnData do with a decoded image: it becomes the
\* application's original image, is displayed in the left canvas, and the
\* Remove Background button is enabled
Ingest(pil_image) ==
    LET st == display_image(Start, "left", pil_image)
    IN /\ original_image' = pil_image
       /\ canvas' = st.cv
       /\ trace' = Logged(st)
       /\ remove_enabled' = TRUE
       /\ UNCHANGED <<processed_image, remove_label, explorer_enabled, pc, wheels, moves>>

\* OnPaste that takes a clipboard without bitmap data for an empty image
PasteOfClearing(opened, got) ==
    /\ pc = "idle"
    /\ UNCHANGED diskVars
    /\ IF ~opened
       THEN /\ io' = <<Ext("TheClipboard.Open", "")>>
            /\ UNCHANGED <<canvas, appVars, wheels, moves, trace, clipboard>>
       ELSE /\ io' = <<Ext("TheClipboard.Open", ""), Ext("TheClipboard.GetData", ""),
                       Ext("TheClipboard.Close", "")>>
            /\ clipboard' = [clipboard EXCEPT !.open = FALSE]
            /\ IF got
               THEN /\ original_image' = clipboard.data
                    /\ canvas' = [canvas EXCEPT !["left"] = NewCanvas]
                    /\ remove_enabled' = TRUE
                    /\ UNCHANGED <<processed_image, remove_label, explorer_enabled,
                                   pc, wheels, moves, trace>>
               ELSE UNCHANGED <<canvas, appVars, wheels, moves, trace>>

\* PasteEnabledStaticBitmap.OnPaste; opened and got are the results of
\* wx.TheClipboard.Open() and wx.TheClipboard.GetData(data)
PasteOf(opened, got) ==
    /\ pc = "idle"
    /\ UNCHANGED diskVars
    /\ IF ~opened
       THEN /\ io' = <<Ext("TheClipboard.Open", "")>>
            /\ UNCHANGED <<canvas, appVars, wheels, moves, trace, clipboard>>
       ELSE IF clipboard.data = NoImage
       THEN /\ io' = <<Ext("TheClipboard.Open", "")>>
            /\ clipboard' = [clipboard EXCEPT !.open = TRUE]
            /\ UNCHANGED <<canvas, appVars, wheels, moves, trace>>
       ELSE /\ io' = <<Ext("TheClipboard.Open", ""), Ext("TheClipboard.GetData", ""),
                       Ext("TheClipboard.Close", "")>>
            /\ clipboard' = [clipboard EXCEPT !.open = FALSE]
            /\ IF got
               THEN Ingest(clipboard.data)
               ELSE UNCHANGED <<canvas, appVars, wheels, moves, trace>>

Paste == \E opened \in BOOLEAN, got \in BOOLEAN : PasteOf(opened, got)

\* ImageDropTarget.OnData receiving a bitmap
DropBitmapOf(img) ==
    /\ pc = "idle"
    /\ UNCHANGED diskVars
    /\ Ingest(img)
    /\ io' = <<>>
    /\ UNCHANGED clipboard

DropBitmap == \E img \in Bitmaps : DropBitmapOf(img)

\* OnData that installs what Image.open returned before its pixels are read
DropFileOfInstallFirst(f) ==
    /\ pc = "idle"
    /\ UNCHANGED diskVars
    /\ IF f = NoImage
       THEN /\ io' = <<MsgLoading>>
            /\ UNCHANGED <<canvas, appVars, wheels, moves, trace>>
       ELSE /\ Ingest(f)
            /\ io' = IF Loadable(f) THEN <<>> ELSE <<MsgLoading>>
    /\ UNCHANGED clipboard

\* ImageDropTarget.OnData receiving the path of file f
DropFileOf(f) ==
    /\ pc = "idle"
    /\ UNCHANGED diskVars
    /\ IF f = NoImage
       THEN /\ io' = <<MsgLoading>>
            /\ UNCHANGED <<canvas, appVars, wheels, moves, trace>>
       ELSE IF ~Loadable(f)
       THEN /\ original_image' = f
            /\ io' = <<MsgLoading>>
            /\ UNCHANGED <<canvas, processed_image, remove_enabled, remove_label,
                           explorer_enabled, pc, wheels, moves, trace>>
       ELSE /\ Ingest(f)
            /\ io' = <<>>
    /\ UNCHANGED clipboard

DropFile == \E f \in DropFiles : DropFileOf(f)

Next ==
    \/ \E c \in Canvases : MouseWheel(c)
    \/ \E c \in Canvases : MouseDown(c)
    \/ \E c \in Canvases : MouseUp(c)
    \/ \E c \in Canvases : MouseMove(c)
    \/ LoadImage
    \/ LoadCancel
    \/ RemoveSubmit
    \/ RemoveDeliver

Spec == Init /\ [][Next]_vars

\* k Ctrl+wheel events of rotation delta at (x, y) on canvas c, one after another
RECURSIVE WheelTimes(_, _, _, _, _, _)
WheelTimes(st, c, delta, x, y, k) ==
    LET after == {OnMouseWheel([cv |-> st.cv, tr |-> <<>>], c, TRUE, delta, x, y)}
    IN IF k = 0 \/ after = {} THEN st
       ELSE WheelTimes(CHOOSE s \in after : TRUE, c, delta, x, y, k - 1)

\* The states reached from Init by loading the scenario image, optionally
\* removing its background (model and save succeeding), and then turning the
\* wheel k times in one direction over the scenario point of the left canvas
InitZoomed ==
    \E withResult \in BOOLEAN, delta \in {-1, 1}, k \in 0..MaxPreWheel :
        LET img == ScenarioImage
            p == ScenarioPoint
            loaded == display_image([cv |-> [c \in Canvases |-> NewCanvas],
                                     tr |-> <<>>], "left", img)
            result == Rembg(Thumbnail(img))
            shown == IF withResult
                     THEN display_image([cv |-> loaded.cv, tr |-> <<>>], "right", result)
                     ELSE loaded
            st == WheelTimes(shown, "left", delta, p[1], p[2], k)
        IN /\ canvas = st.cv
           /\ trace = st.tr
           /\ original_image = IF withResult THEN Thumbnail(img) ELSE img
           /\ processed_image = IF withResult THEN result ELSE NoImage
           /\ remove_enabled = TRUE
           /\ remove_label = "Remove Background"
           /\ explorer_enabled = withResult
           /\ pc = "idle"
           /\ output_filename = IF withResult THEN OutputName ELSE NoFilename
           /\ files = IF withResult THEN {Resolve(Join("output", OutputName))} ELSE {}
           /\ wheels = MaxZoomedWheel
           /\ moves = MaxMoves
           /\ clipboard = [data |-> NoImage, open |-> FALSE]
           /\ io = <<>>

\* pointer and wheel events only
NextZoomed ==
    \/ \E c \in Canvases : MouseWheel(c)
    \/ \E c \in Canvases : MouseDown(c)
    \/ \E c \in Canvases : MouseUp(c)
    \/ \E c \in Canvases : MouseMove(c)

SpecZoomed == InitZoomed /\ [][NextZoomed]_vars

\* the state after construction, with the clipboard as other applications
\* left it: holding a bitmap or holding none
InitIngest ==
    /\ canvas = [c \in Canvases |-> NewCanvas]
    /\ original_image = NoImage
    /\ processed_image = NoImage
    /\ remove_enabled = FALSE
    /\ remove_label = "Remove Background"
    /\ explorer_enabled = FALSE
    /\ pc = "idle"
    /\ output_filename = NoFilename
    /\ files = {}
    /\ wheels = MaxIngestWheel
    /\ moves = 0
    /\ trace = <<>>
    /\ clipboard \in {[data |-> d, open |-> FALSE] : d \in {NoImage} \cup Bitmaps}
    /\ io = <<>>

\* loading, clipboard, drop and background-removal operations, failing ones
\* included, and wheel events
NextIngest ==
    \/ LoadImage
    \/ Paste
    \/ DropBitmap
    \/ DropFile
    \/ \E c \in Canvases : Copy(c)
    \/ RemoveRejected
    \/ RemoveSubmit
    \/ RemoveSubmitFails
    \/ RemoveDeliver
    \/ RemoveDeliverFails
    \/ Explorer
    \/ \E c \in Canvases : MouseWheel(c)

SpecIngest == InitIngest /\ [][NextIngest]_vars

\* ------------------------------------------------------------------ claims

\* |pan| <= max(0, (sourceDimension * zoom - containerDimension) / 2) on both
\* axes, for canvas state s, in exact arithmetic
WithinPanBound(s) ==
    /\ 2 * ZoomOne * Abs(s.pan_x)
         <= Max(0, s.source_pil_image.w * s.zoom_level - ContainerW * ZoomOne)
    /\ 2 * ZoomOne * Abs(s.pan_y)
         <= Max(0, s.source_pil_image.h * s.zoom_level - ContainerH * ZoomOne)

\* C1: in every reachable state the zoom level of each of the two canvases
\* lies in [0.1, 5.0].
C1_ZoomInRange ==
    \A c \in Canvases :
        canvas[c].zoom_level >= MinZoom /\ canvas[c].zoom_level <= MaxZoom

\* a wheel event of this run took the left canvas to the upper limit and the
\* mirror write took the right canvas there too
C1_Witness ==
    /\ wheels < MaxZoomedWheel
    /\ HasImage(canvas["right"])
    /\ canvas["left"].zoom_level = MaxZoom
    /\ canvas["right"].zoom_level = MaxZoom

\* C2: in every reachable state each canvas that holds an image has a pan
\* within the bound computed from its own image, zoom and container.
C2_PanWithinOwnBound ==
    \A c \in Canvases : HasImage(canvas[c]) => WithinPanBound(canvas[c])

\* C3: in every reachable state a canvas whose zoom is <= 1.0 has pan (0, 0).
C3_NoPanAtOrBelowOne ==
    \A c \in Canvases :
        canvas[c].zoom_level <= ZoomOne =>
            canvas[c].pan_x = 0 /\ canvas[c].pan_y = 0

SameView(a, b) ==
    a.zoom_level = b.zoom_level /\ a.pan_x = b.pan_x /\ a.pan_y = b.pan_y

\* C4: a wheel or pointer-move event on canvas c that changes c's zoom or pan
\* leaves the mirror canvas with exactly c's zoom and pan when the mirror
\* canvas holds an image, and leaves the mirror canvas's zoom and pan
\* unchanged when it holds none.
C4_MirrorFollowsOrigin ==
    [][\A c \in Canvases :
         (~SameView(canvas'[c], canvas[c]) /\ (MouseWheel(c) \/ MouseMove(c)))
           => IF HasImage(canvas[Mirror(c)])
              THEN SameView(canvas'[Mirror(c)], canvas'[c])
              ELSE SameView(canvas'[Mirror(c)], canvas[Mirror(c)])]_vars

\* the left canvas was zoomed in off centre and the right canvas, holding an
\* image, received the same zoom and pan through the mirror write
C4_Witness ==
    /\ HasImage(canvas["left"]) /\ HasImage(canvas["right"])
    /\ Len(trace) = 3 /\ trace[2].op = "SyncMirror" /\ trace[2].c = "left"
    /\ canvas["left"].zoom_level > ZoomOne
    /\ canvas["left"].pan_y # 0
    /\ SameView(canvas["left"], canvas["right"])

\* C5: whenever both canvases hold an image their zoom and pan are equal.
C5_AlwaysSynchronized ==
    (HasImage(canvas["left"]) /\ HasImage(canvas["right"]))
        => SameView(canvas["left"], canvas["right"])

\* C6: a handler writes to the mirror canvas at most once; after that write
\* the only further call is the render of the mirror canvas (nothing goes
\* back to the origin), the origin keeps the zoom and pan it had when it
\* propagated, and the handler's chain of calls ends after at most three calls.
C6_SingleHop ==
    [][trace' # trace =>
         LET syncs == {i \in DOMAIN trace' : trace'[i].op = "SyncMirror"}
         IN /\ Cardinality(syncs) <= 1
            /\ Len(trace') <= 3
            /\ \A i \in syncs :
                 LET o == trace'[i].c
                 IN /\ canvas'[o].zoom_level = trace'[i].zoom
                    /\ canvas'[o].pan_x = trace'[i].pan_x
                    /\ canvas'[o].pan_y = trace'[i].pan_y
                    /\ \A j \in DOMAIN trace' :
                         j > i => /\ trace'[j].op = "UpdateZoom"
                                  /\ trace'[j].c = Mirror(o)]_vars

\* an event on the right canvas was propagated once, to the left canvas
C6_Witness ==
    /\ Len(trace) = 3
    /\ trace[1].op = "UpdateZoom" /\ trace[1].c = "right"
    /\ trace[2].op = "SyncMirror" /\ trace[2].c = "right"
    /\ trace[3].op = "UpdateZoom" /\ trace[3].c = "left"
    /\ canvas["left"].zoom_level = trace[2].zoom

\* C7: SetImage on a canvas, from any prior state, leaves that canvas with
\* zoom 1.0, pan (0, 0) and the new image as its source image.
C7_SetImageResets ==
    [][/\ \A img \in Images :
            LoadImageOf(img) =>
                /\ canvas'["left"].source_pil_image = img
                /\ canvas'["left"].zoom_level = ZoomOne
                /\ canvas'["left"].pan_x = 0 /\ canvas'["left"].pan_y = 0
       /\ \A saveOk \in BOOLEAN :
            RemoveDeliverOf(TRUE, saveOk) =>
                /\ canvas'["right"].source_pil_image = Rembg(original_image)
                /\ canvas'["right"].zoom_level = ZoomOne
                /\ canvas'["right"].pan_x = 0 /\ canvas'["right"].pan_y = 0]_vars

\* an image was set on the left canvas while it was zoomed in with a drag
\* in progress
C7_Witness ==
    /\ HasImage(canvas["left"])
    /\ canvas["left"].dragging
    /\ wheels < MaxWheel
    /\ canvas["left"].zoom_level = ZoomOne
    /\ canvas["left"].pan_x = 0 /\ canvas["left"].pan_y = 0

\* C8: while the background removal is between submission and delivery,
\* wheel and pointer events on the canvases can be handled.
C8_InputHandledWhileRemoving ==
    pc = "removing" =>
        ENABLED (\E c \in Canvases :
                    MouseWheel(c) \/ MouseDown(c) \/ MouseUp(c) \/ MouseMove(c))

\* C9: every render made while SetImage is handled observes the new image
\* together with zoom 1.0 and pan (0, 0), and no other canvas is rendered.
C9_SetImageAtomic ==
    [][/\ \A img \in Images :
            LoadImageOf(img) =>
                \A i \in DOMAIN trace' :
                    trace'[i] = Call("UpdateZoom", "left",
                                     [source_pil_image |-> img, zoom_level |-> ZoomOne,
                                      pan_x |-> 0, pan_y |-> 0])
       /\ \A saveOk \in BOOLEAN :
            RemoveDeliverOf(TRUE, saveOk) =>
                \A i \in DOMAIN trace' :
                    trace'[i] = Call("UpdateZoom", "right",
                                     [source_pil_image |-> Rembg(original_image),
                                      zoom_level |-> ZoomOne,
                                      pan_x |-> 0, pan_y |-> 0])]_vars

\* the result was delivered to the right canvas, and rendered once, while the
\* left canvas was zoomed and panned
C9_Witness ==
    /\ Len(trace) = 1
    /\ trace[1].op = "UpdateZoom" /\ trace[1].c = "right"
    /\ trace[1].img = processed_image
    /\ canvas["right"].current_bitmap.img = processed_image
    /\ canvas["left"].zoom_level # ZoomOne
    /\ canvas["left"].pan_x # 0

\* the zoom is at a limit and the wheel turns further toward it
AtLimit(z, delta) ==
    (z = MaxZoom /\ delta > 0) \/ (z = MinZoom /\ delta <= 0)

\* C10: a Ctrl+wheel event at a zoom limit, turning toward the limit, changes
\* neither canvas and renders and propagates nothing.
C10_WheelAtLimitNoOp ==
    [][\A c \in Canvases, delta \in Deltas, p \in Points :
         (AtLimit(canvas[c].zoom_level, delta) /\ MouseWheelAt(c, TRUE, delta, p))
            => canvas' = canvas /\ trace' = trace]_vars

\* a wheel event of this run took both canvases, each holding an image, to
\* the lower zoom limit, where further turns toward it are handled
C10_Witness ==
    /\ wheels < MaxZoomedWheel
    /\ HasImage(canvas["left"]) /\ HasImage(canvas["right"])
    /\ canvas["left"].zoom_level = MinZoom
    /\ canvas["right"].zoom_level = MinZoom

\* C11: a wheel event without Ctrl, of any rotation and at any point, on any
\* canvas in any state, changes the zoom and pan of neither that canvas nor
\* its mirror canvas.
C11_WheelWithoutCtrlNoOp ==
    [][\A c \in Canvases, delta \in Deltas, p \in Points :
         MouseWheelAt(c, FALSE, delta, p)
            => /\ SameView(canvas'[c], canvas[c])
               /\ SameView(canvas'[Mirror(c)], canvas[Mirror(c)])]_vars

\* both canvases hold an image and are away from the zoom limits, zoomed in
\* and panned, so that a wheel event that zoomed would change both
C11_Witness ==
    /\ pc = "idle"
    /\ HasImage(canvas["left"]) /\ HasImage(canvas["right"])
    /\ canvas["right"].zoom_level > ZoomOne
    /\ canvas["right"].zoom_level < MaxZoom
    /\ canvas["right"].pan_x # 0
    /\ SameView(canvas["left"], canvas["right"])

\* C12: in every reachable state, a pointer-down on a canvas whose zoom is
\* <= 1.0 followed by a pointer-move on that canvas, wherever the two events
\* are and whether or not the button is reported held, leaves the canvas's
\* pan as it was at the pointer-down.
C12_NoPanAfterDownAtOrBelowOne ==
    \A c \in Canvases :
        canvas[c].zoom_level <= ZoomOne =>
            \A p \in Points, q \in Points, leftIsDown \in BOOLEAN :
                LET down == OnMouseDown(Start, c, p[1], p[2])
                    move == OnMouseMove(down, c, leftIsDown, q[1], q[2])
                IN /\ move.cv[c].pan_x = canvas[c].pan_x
                   /\ move.cv[c].pan_y = canvas[c].pan_y

\* zoom 1.0 and pan (0, 0)
DefaultView(s) == s.zoom_level = ZoomOne /\ s.pan_x = 0 /\ s.pan_y = 0

\* C13: a canvas that holds no image and is given one has zoom 1.0 and pan
\* (0, 0) afterwards, whatever zoom and pan its mirror canvas was given while
\* it was empty, and the mirror canvas keeps its own; from then on its zoom
\* and pan change only when an image is set on it or a wheel or pointer-move
\* event arrives at one of the two canvases.
C13_EmptyPartnerNotQueued ==
    [][/\ \A img \in Images :
            (~HasImage(canvas["left"]) /\ LoadImageOf(img))
                => /\ DefaultView(canvas'["left"])
                   /\ SameView(canvas'["right"], canvas["right"])
       /\ \A saveOk \in BOOLEAN :
            (~HasImage(canvas["right"]) /\ RemoveDeliverOf(TRUE, saveOk))
                => /\ DefaultView(canvas'["right"])
                   /\ SameView(canvas'["left"], canvas["left"])
       /\ \A c \in Canvases :
            ~SameView(canvas'[c], canvas[c])
                => \/ c = "left" /\ LoadImage
                   \/ c = "right" /\ \E saveOk \in BOOLEAN : RemoveDeliverOf(TRUE, saveOk)
                   \/ \E o \in Canvases : MouseWheel(o) \/ MouseMove(o)]_vars

\* the right canvas was zoomed while the left canvas could not follow, and
\* the left canvas, given an image, shows it at zoom 1.0 and pan (0, 0)
C13_Witness ==
    /\ ~HasImage(canvas["right"])
    /\ canvas["right"].zoom_level # ZoomOne
    /\ canvas["right"].pan_x # 0
    /\ HasImage(canvas["left"])
    /\ DefaultView(canvas["left"])
    /\ Len(trace) = 1 /\ trace[1].op = "UpdateZoom" /\ trace[1].c = "left"

\* C14: a pointer-move that drags a canvas holding an image at zoom > 1.0
\* leaves that canvas, for every pointer delta, with a pan within
\* max(0, (sourceDimension * zoom - containerDimension) / 2) on both axes.
C14_DragPanWithinBound ==
    [][\A c \in Canvases, p \in Points :
         (/\ canvas[c].dragging
          /\ HasImage(canvas[c])
          /\ canvas[c].zoom_level > ZoomOne
          /\ MouseMoveAt(c, TRUE, p))
            => WithinPanBound(canvas'[c])]_vars

\* a drag moved the pointer over an image that, zoomed in, is still smaller
\* than the container, and the clamp took the pan back to (0, 0)
C14_Witness ==
    \E c \in Canvases :
        /\ moves < MaxMoves
        /\ canvas[c].dragging
        /\ canvas[c].source_pil_image = [w |-> 300, h |-> 200, mode |-> "RGB"]
        /\ canvas[c].zoom_level > ZoomOne
        /\ Len(trace) >= 1 /\ trace[1] = Call("UpdateZoom", c, canvas[c])
        /\ canvas[c].pan_x = 0 /\ canvas[c].pan_y = 0

\* the same source image, zoom and pan
SameViewport(a, b) == a.source_pil_image = b.source_pil_image /\ SameView(a, b)

\* the last handler showed message box m
Shown(m) == \E i \in DOMAIN io : io[i] = m

\* C15: when rembg fails, in creating the session or in the model call, an
\* "Error processing image" message box is shown and both canvases have the
\* source image, zoom and pan they had when the button was pressed: neither
\* the submission nor the failing call changes them.
C15_RemovalFailureKeepsViewports ==
    [][(RemoveSubmit \/ RemoveSubmitFails \/ RemoveDeliverOf(FALSE, FALSE))
         => /\ \A c \in Canvases : SameViewport(canvas'[c], canvas[c])
            /\ pc' = "idle" => Shown(MsgProcessing)']_vars

\* the model call failed while both canvases held an image, zoomed
C15_Witness ==
    /\ pc = "idle"
    /\ io = <<Ext("rembg.remove", ""), MsgProcessing>>
    /\ HasImage(canvas["left"]) /\ HasImage(canvas["right"])
    /\ canvas["left"].zoom_level # ZoomOne
    /\ SameView(canvas["left"], canvas["right"])

\* C16: dropping the path of a file that cannot be decoded, because
\* Image.open rejects it or because its pixel data cannot be read, shows an
\* "Error loading image" message box and leaves the source image, zoom and
\* pan of the left canvas, and of the right canvas, as they were.
C16_DropUndecodableKeepsViewport ==
    [][\A f \in DropFiles :
         (~Loadable(f) /\ DropFileOf(f))
            => /\ \A c \in Canvases : SameViewport(canvas'[c], canvas[c])
               /\ Shown(MsgLoading)']_vars

\* a file with unreadable pixel data was dropped on the left canvas while it
\* showed an image zoomed out
C16_Witness ==
    /\ io = <<MsgLoading>>
    /\ original_image = TruncatedImage
    /\ HasImage(canvas["left"])
    /\ canvas["left"].zoom_level < ZoomOne
    /\ canvas["left"].pan_x # 0

\* C17: Paste while the clipboard holds no bitmap data, whether or not the
\* clipboard could be opened, leaves the source image, zoom and pan of both
\* canvases and the application's original image as they were, and shows no
\* message box.
C17_PasteWithoutBitmapNoOp ==
    [][\A opened \in BOOLEAN, got \in BOOLEAN :
         (clipboard.data = NoImage /\ PasteOf(opened, got))
            => /\ \A c \in Canvases : SameViewport(canvas'[c], canvas[c])
               /\ original_image' = original_image
               /\ \A i \in DOMAIN io' : io'[i].call # "wx.MessageBox"]_vars

\* Paste found the clipboard without bitmap data while the left canvas
\* showed an image zoomed in
C17_Witness ==
    /\ clipboard.data = NoImage
    /\ clipboard.open
    /\ io = <<Ext("TheClipboard.Open", "")>>
    /\ original_image # NoImage
    /\ HasImage(canvas["left"])
    /\ canvas["left"].zoom_level > ZoomOne

\* the last handler called rembg
CalledRembg(log) ==
    \E i \in DOMAIN log : log[i].call \in {"rembg.new_session", "rembg.remove"}

\* C18: Copy on a canvas without a source image makes no clipboard call and
\* leaves the clipboard as it is; the background-removal handler called
\* while the application holds no image shows its message box and returns
\* without creating a session or entering the model call, and no submission
\* starts from a state without an image.
C18_EmptySourceRejectedFirst ==
    [][/\ \A c \in Canvases :
            (~HasImage(canvas[c]) /\ Copy(c))
                => clipboard' = clipboard /\ io' = <<>>
       /\ RemoveRejected
            => /\ ~CalledRembg(io')
               /\ pc' = "idle"
               /\ processed_image' = processed_image
       /\ original_image = NoImage
            => ~(RemoveSubmit \/ RemoveSubmitFails \/ pc' = "removing")]_vars

\* background removal was requested while no image was loaded, both
\* canvases empty and the clipboard holding a bitmap
C18_Witness ==
    /\ io = <<MsgLoadFirst>>
    /\ original_image = NoImage
    /\ \A c \in Canvases : ~HasImage(canvas[c])
    /\ clipboard.data # NoImage
    /\ pc = "idle"

\* the calls of a Copy that reached the clipboard
CopyCalls == <<Ext("TheClipboard.Open", ""), Ext("TheClipboard.SetData", ""),
               Ext("TheClipboard.Close", "")>>

\* C19: Copy on a canvas holding an image leaves both canvases as they are,
\* and what it writes to the clipboard is the canvas's source image at its
\* own size, converted to RGB, whatever the canvas's zoom and pan; when the
\* clipboard cannot be opened it writes nothing.
C19_CopyExportsSource ==
    [][\A c \in Canvases :
         (HasImage(canvas[c]) /\ Copy(c))
            => /\ canvas' = canvas
               /\ IF io' = CopyCalls
                  THEN clipboard'.data = ToRGB(canvas[c].source_pil_image)
                  ELSE clipboard' = clipboard]_vars

\* the result image was copied from the right canvas while it was zoomed and
\* panned: the clipboard holds it at the size of the source image
C19_Witness ==
    /\ io = CopyCalls
    /\ canvas["right"].source_pil_image.mode = "RGBA"
    /\ clipboard.data = ToRGB(canvas["right"].source_pil_image)
    /\ canvas["right"].zoom_level # ZoomOne
    /\ canvas["right"].pan_x # 0
    /\ canvas["right"].current_bitmap.w # clipboard.data.w

\* C20: a submission that reaches the model call hands it an image whose
\* long edge is at most 1280, and the image the application holds as
\* original_image has the same width and height after the submission as
\* before it.
C20_SubmissionKeepsOriginal ==
    [][(RemoveSubmit /\ pc' = "removing")
         => /\ Max(Thumbnail(original_image).w, Thumbnail(original_image).h) <= ThumbMax
            /\ original_image'.w = original_image.w
            /\ original_image'.h = original_image.h]_vars

\* the zoom scenario: zoom (in units of 1/ZoomOne) and pan on each axis
\* after 0, 1, 2, 3 and 4 anchored zooms of factor 1.1 at (200, 200)
ScenarioZoom == <<10000, 11000, 12100, 13310, 14641>>
ScenarioPan == <<0, -20, -42, -66, -92>>

\* canvas state s is the scenario after k zoom steps
ScenarioAt(s, k) ==
    /\ s.source_pil_image = ScenarioImage
    /\ s.zoom_level = ScenarioZoom[k + 1]
    /\ s.pan_x = ScenarioPan[k + 1]
    /\ s.pan_y = ScenarioPan[k + 1]

\* pan differs by less than one pixel from anchor - (anchor - pan0) * z1/z0
NearAnchor(pan, anchor, pan0, z0, z1) ==
    Abs(pan * z0 - (anchor * z0 - (anchor - pan0) * z1)) < z0

\* C21: with the 800x600 image in the 400x400 left canvas, each of the four
\* Ctrl+wheel-up events at (200, 200) takes the canvas from one step of the
\* scenario to the next: zoom 1.1, 1.21, 1.331, 1.4641 and pan -20, -42,
\* -66, -92 on both axes, each pan the anchor formula's value and within the
\* clamp bound of the zoom reached.
C21_FourZoomScenario ==
    [][\A k \in 0..3 :
         (ScenarioAt(canvas["left"], k)
            /\ MouseWheelAt("left", TRUE, 1, ScenarioPoint))
            => /\ ScenarioAt(canvas'["left"], k + 1)
               /\ WithinPanBound(canvas'["left"])
               /\ NearAnchor(canvas'["left"].pan_x, ScenarioPoint[1],
                             canvas["left"].pan_x, canvas["left"].zoom_level,
                             canvas'["left"].zoom_level)
               /\ NearAnchor(canvas'["left"].pan_y, ScenarioPoint[2],
                             canvas["left"].pan_y, canvas["left"].zoom_level,
                             canvas'["left"].zoom_level)]_vars

\* the fourth zoom step was taken: zoom 1.4641, pan (-92, -92)
C21_Witness ==
    /\ wheels < MaxZoomedWheel
    /\ ScenarioAt(canvas["left"], 4)
    /\ Len(trace) >= 1 /\ trace[1] = Call("UpdateZoom", "left", canvas["left"])

\* the wheel turned up and then down over (x, y) of canvas c, Ctrl held
WheelUpThenDown(c, x, y) ==
    LET up == OnMouseWheel(Start, c, TRUE, 1, x, y)
    IN OnMouseWheel([cv |-> up.cv, tr |-> <<>>], c, TRUE, -1, x, y)

\* C22: a zoom-in at a point followed by a zoom-out at the same point returns
\* the pan of the viewport to the value it had before the pair, within
\* rounding tolerance (two truncations toward zero, each of less than one
\* pixel), whatever the point, the pan and the zoom before
C22_ZoomRoundTripRestoresPan ==
    \A c \in Canvases, p \in Points :
        HasImage(canvas[c])
            => LET after == WheelUpThenDown(c, p[1], p[2]).cv[c]
               IN /\ Abs(after.pan_x - canvas[c].pan_x) <= 2
                  /\ Abs(after.pan_y - canvas[c].pan_y) <= 2

\* v limited to the zoom range [0.1, 5.0]
InZoomRange(v) == IF v < MinZoom THEN MinZoom ELSE IF v > MaxZoom THEN MaxZoom ELSE v

\* C23: a wheel event with Ctrl held sets the zoom of its canvas to
\* clamp(zoom * factor, 0.1, 5.0), the factor being 1.1 for a positive
\* rotation and 0.9 for every other rotation, zero included.
C23_WheelFactor ==
    \A c \in Canvases, delta \in Deltas, p \in Points :
        LET z == canvas[c].zoom_level
            after == OnMouseWheel(Start, c, TRUE, delta, p[1], p[2]).cv[c]
        IN after.zoom_level = IF delta > 0 THEN InZoomRange((z * 11 + 5) \div 10)
                                           ELSE InZoomRange((z * 9 + 5) \div 10)

\* a wheel event of this run multiplied the upper zoom limit, itself the
\* result of a clamp, by 0.9
C23_Witness ==
    /\ wheels < MaxZoomedWheel
    /\ HasImage(canvas["left"])
    /\ canvas["left"].zoom_level = (MaxZoom * 9) \div 10

\* the pan bound of one axis: max(0, (dimension * zoom - container) / 2)
PanBound(dim, z, container) == Max(0, (Scaled(dim, z) - container) \div 2)

\* pan limited to [-bound, bound]
Limited(pan, bound) == Max(Min(pan, bound), -bound)

\* pan is the anchor value of pan0 for the zoom change z0 -> z1, within
\* rounding, limited to the bound of an axis of dimension dim at zoom z1
AnchoredThenClamped(pan, anchor, pan0, z0, z1, dim, container) ==
    \E a \in (pan0 - 2 * anchor - 1)..(pan0 + 2 * anchor + 1) :
        /\ NearAnchor(a, anchor, pan0, z0, z1)
        /\ pan = Limited(a, PanBound(dim, z1, container))

\* C24: a wheel event that changes the zoom of a canvas holding an image from
\* z to z' leaves on each axis the pan anchor - (anchor - pan) * (z'/z),
\* computed from the pan before the event, clamped to the pan bound for z'.
C24_AnchorThenClamp ==
    \A c \in Canvases, delta \in Deltas, p \in Points :
        LET s == canvas[c]
            after == OnMouseWheel(Start, c, TRUE, delta, p[1], p[2]).cv[c]
        IN (HasImage(s) /\ after.zoom_level # s.zoom_level)
              => /\ AnchoredThenClamped(after.pan_x, p[1], s.pan_x, s.zoom_level,
                                        after.zoom_level, s.source_pil_image.w,
                                        ContainerW)
                 /\ AnchoredThenClamped(after.pan_y, p[2], s.pan_y, s.zoom_level,
                                        after.zoom_level, s.source_pil_image.h,
                                        ContainerH)

\* C25: a pan delta applied to a canvas whose zoom is <= 1.0 (a drag begun
\* above 1.0 that goes on after the wheel took the zoom to 1.0 or below)
\* leaves the pan of that canvas at (0, 0).
C25_PanAtOrBelowOneForcedToZero ==
    \A c \in Canvases, p \in Points :
        LET s == canvas[c]
            after == OnMouseMove(Start, c, TRUE, p[1], p[2]).cv[c]
        IN (HasImage(s) /\ s.dragging /\ s.zoom_level <= ZoomOne)
              => after.pan_x = 0 /\ after.pan_y = 0

\* C26: the source image of a canvas is an object of the canvas's own and
\* changes only when SetBitmap installs an image in that canvas (loading,
\* pasting or dropping for the left canvas, a delivered result for the right
\* one): rendering, zooming, panning, mirror writes, the in-place resize of
\* the application's image and the background removal leave it as it is.
C26_InstalledImageNotMutated ==
    [][/\ \A c \in Canvases : ~canvas'[c].source_shared
       /\ canvas'["left"].source_pil_image # canvas["left"].source_pil_image
             => /\ LoadImage \/ Paste \/ DropBitmap \/ DropFile
                /\ canvas'["left"].source_pil_image = original_image'
       /\ canvas'["right"].source_pil_image # canvas["right"].source_pil_image
             => /\ \E saveOk \in BOOLEAN : RemoveDeliverOf(TRUE, saveOk)
                /\ canvas'["right"].source_pil_image = processed_image']_vars

\* the application's image has been shrunk in place for the removal now in
\* progress while the left canvas still holds the image as it was installed
C26_Witness ==
    /\ pc = "removing"
    /\ original_image.w = ThumbMax
    /\ canvas["left"].source_pil_image.w > ThumbMax

\* the file that the last removal saved exists where save_final_image put it
SavedFileExists ==
    /\ output_filename # NoFilename
    /\ Resolve(Join("output", output_filename)) \in files

\* C27: after a successful removal the Explorer action looks for the output
\* file at the path where save_final_image wrote it, so it does not report
\* "Output file not found." while the saved file exists.
C27_ExplorerFindsSavedFile ==
    (explorer_enabled /\ SavedFileExists)
        => on_explorer(output_filename, files) # <<MsgNotFound>>

\* C28: SetBitmap ends a drag in progress on its canvas: once an image has
\* been installed in the left canvas, a pointer-move with the left button
\* held, with no pointer-down in between, leaves the pan of that canvas at
\* (0, 0).
C28_SetImageEndsDrag ==
    [][LoadImage
         => \A p \in Points :
               LET after == OnMouseMove([cv |-> canvas', tr |-> <<>>], "left", TRUE,
                                        p[1], p[2]).cv["left"]
               IN after.pan_x = 0 /\ after.pan_y = 0]_vars

\* C29: a paste or copy handler that has opened the clipboard closes it
\* before it returns, on every path: between events the clipboard is not
\* held open by the application.
C29_ClipboardClosedBetweenEvents == ~clipboard.open

\* a step in which an attempt at background removal that passed the
\* empty-image check ends: before the model call, or after it
AttemptEnds ==
    \/ (\E sessionOk \in BOOLEAN : RemoveSubmitOf(sessionOk)) /\ pc' = "idle"
    \/ \E modelOk, saveOk \in BOOLEAN : RemoveDeliverOf(modelOk, saveOk)

\* C30: between events the Remove Background button is enabled only if the
\* application holds an original image; every attempt at background removal
\* that passed the empty-image check, successful or not, leaves the button
\* enabled with the label "Remove Background"; the Explorer button is enabled
\* only if the most recent attempt ended successfully, the save included.
C30_ButtonStates ==
    [][/\ remove_enabled' => original_image' # NoImage
       /\ pc' = "idle" => remove_label' = "Remove Background"
       /\ AttemptEnds => remove_enabled' /\ remove_label' = "Remove Background"
       /\ (explorer_enabled' /\ ~explorer_enabled) => RemoveDeliverOf(TRUE, TRUE)
       /\ (AttemptEnds /\ ~RemoveDeliverOf(TRUE, TRUE)) => ~explorer_enabled'
       /\ explorer_enabled' => pc' = "idle"]_vars

\* an attempt has ended with a failing save after an earlier attempt had
\* saved its result: the button is back and the Explorer button is disabled
C30_Witness ==
    /\ pc = "idle"
    /\ Shown(Ext("save_final_image", "")) /\ Shown(MsgProcessing)
    /\ SavedFileExists
    /\ remove_enabled /\ remove_label = "Remove Background"
    /\ ~explorer_enabled

====
